---- MODULE Spec2Model ----
(***************************************************************************)
(* Model of the CORS middleware of src/src/aws/index.ts                    *)
(* (ShallotAWSHttpCors): one middleware instance, built once from the      *)
(* caller's options, whose `finally` hook post-processes the response of   *)
(* each request that the handler pipeline pushes through it.               *)
(*                                                                         *)
(* JavaScript values are tagged records [t |-> type, v |-> payload]; an    *)
(* object's payload is a function from the keys it owns to values, so that *)
(* an absent key, a key holding null and a key holding "" stay distinct.   *)
(***************************************************************************)
EXTENDS Integers, Sequences, FiniteSets, TLC

VARIABLES
    options,   \* the options object the caller passed to ShallotAWSHttpCors
    config,    \* the closure variable `config`, reassigned by every call
    event,     \* request.event of the request in the pipeline
    response,  \* request.response of the request in the pipeline
    runs,      \* runs of the hook on the request in the pipeline (0: none in it)
    threw,     \* the last run of the hook rejected (TypeError)
    prev,      \* request.response as it was when the last run began
    parsed,    \* the lists parseAllowedOrigin was called with in the last run
    used       \* the effective configurations the hook's runs have used

vars == <<options, config, event, response, runs, threw, prev, parsed, used>>

(***************************************************************************)
(* Bounds and input domains                                                *)
(***************************************************************************)
MaxOrigins == 2      \* longest allowedOrigins list the caller configures
MaxRuns == 2         \* most runs of the hook on one request (double wrap)

ConfigOrigins == {"a", "b", "*"}
InboundOrigins == {"a", "c"}
Methods == {"GET", "OPTIONS", "options"}

(***************************************************************************)
(* JavaScript values                                                       *)
(***************************************************************************)
Undefined == [t |-> "undefined"]
Null == [t |-> "null"]
Str(s) == [t |-> "string", v |-> s]
Bool(b) == [t |-> "boolean", v |-> b]
Arr(l) == [t |-> "array", v |-> l]
Obj(f) == [t |-> "object", v |-> f]
Empty == [k \in {} |-> Undefined]

\* x == null / x != null
IsNullish(x) == x.t \in {"undefined", "null"}

\* obj[key] for an object value
Prop(obj, key) == IF key \in DOMAIN obj.v THEN obj.v[key] ELSE Undefined

\* a ?? b
Coalesce(a, b) == IF IsNullish(a) THEN b ELSE a

\* String(value) for the values the hook passes (string | boolean)
JSString(value) ==
    IF value.t = "boolean"
    THEN (IF value.v THEN "true" ELSE "false")
    ELSE value.v

(***************************************************************************)
(* The caller's options, the defaults and their merge (lines 58-62)        *)
(***************************************************************************)
\* the lists of distinct origins of ConfigOrigins, of length at most n
Lists(n) ==
    { l \in UNION {[1..k -> ConfigOrigins] : k \in 0..n} :
        \A i, j \in 1..Len(l) : l[i] = l[j] => i = j }

\* every options object of type TShallotHTTPCorsOptions within the bounds;
\* a key the caller omits is not in the object's domain
TShallotHTTPCorsOptions ==
    { Obj(a @@ b @@ c @@ d @@ e) :
        a \in {Empty} \cup {[allowHeaders |-> Str("h")]},
        b \in {Empty} \cup {[allowedOrigins |-> Arr(l)] : l \in Lists(MaxOrigins)},
        c \in {Empty} \cup {[credentials |-> Bool(x)] : x \in BOOLEAN},
        d \in {Empty} \cup {[maxAge |-> Str("")]},
        e \in {Empty} \cup {[cacheControl |-> Str("no-cache")]} }

\* the literal of lines 59-60
Defaults == [allowedOrigins |-> Arr(<<"*">>), credentials |-> Bool(FALSE)]

\* a merge that extends the list it finds instead of defaulting it:
\* { ...config, allowedOrigins: ['*', ...(config.allowedOrigins ?? [])] }
MergeConfigAccumulating(cfg) ==
    Obj(("allowedOrigins" :>
            Arr(<<"*">> \o (IF "allowedOrigins" \in DOMAIN cfg.v
                            THEN cfg.v["allowedOrigins"].v
                            ELSE <<>>)))
        @@ cfg.v @@ Defaults)

\* { allowedOrigins: ['*'], credentials: false, ...config }
MergeConfig(cfg) == Obj(cfg.v @@ Defaults)

(***************************************************************************)
(* setHeaderIfNotExists (lines 22-30)                                      *)
(***************************************************************************)
\* the guard written as !response.headers[header]: an empty string counts as
\* no header
setHeaderIfFalsy(resp, header, value) ==
    IF /\ ~IsNullish(value)
       /\ ~IsNullish(Prop(resp, "headers"))
       /\ \/ IsNullish(Prop(Prop(resp, "headers"), header))
          \/ Prop(Prop(resp, "headers"), header) = Str("")
    THEN Obj(("headers" :> Obj((header :> Str(JSString(value))) @@ Prop(resp, "headers").v))
             @@ resp.v)
    ELSE resp

\* a setter that appends to the header it finds, as for a multi-valued header
setHeaderAppending(resp, header, value) ==
    IF ~IsNullish(value) /\ ~IsNullish(Prop(resp, "headers"))
    THEN Obj(("headers" :>
                Obj((header :>
                        IF IsNullish(Prop(Prop(resp, "headers"), header))
                        THEN Str(JSString(value))
                        ELSE Str(JSString(Prop(Prop(resp, "headers"), header))
                                 \o "," \o JSString(value)))
                    @@ Prop(resp, "headers").v))
             @@ resp.v)
    ELSE resp

setHeaderIfNotExists(resp, header, value) ==
    IF /\ ~IsNullish(value)
       /\ ~IsNullish(Prop(resp, "headers"))
       /\ IsNullish(Prop(Prop(resp, "headers"), header))
    THEN Obj(("headers" :> Obj((header :> Str(JSString(value))) @@ Prop(resp, "headers").v))
             @@ resp.v)
    ELSE resp

(***************************************************************************)
(* parseAllowedOrigin (lines 32-42)                                        *)
(***************************************************************************)
\* allowedOrigins.includes(x)
Includes(allowedOrigins, x) ==
    /\ x.t = "string"
    /\ \E i \in 1..Len(allowedOrigins.v) : allowedOrigins.v[i] = x.v

\* event.headers['Origin'] dereferences event.headers: a TypeError when the
\* event carries no header mapping
parseAllowedOriginThrows(ev) == IsNullish(Prop(ev, "headers"))

\* the lookup without its lowercase fallback
inboundOriginExact(ev) == Prop(Prop(ev, "headers"), "Origin")

\* const inboundOrigin = event.headers['Origin'] ?? event.headers['origin']
inboundOrigin(ev) ==
    Coalesce(Prop(Prop(ev, "headers"), "Origin"), Prop(Prop(ev, "headers"), "origin"))

parseAllowedOrigin(ev, allowedOrigins) ==
    IF ~IsNullish(inboundOrigin(ev)) /\ Includes(allowedOrigins, inboundOrigin(ev))
    THEN inboundOrigin(ev)
    ELSE IF Includes(allowedOrigins, Str("*"))
    THEN Str("*")
    ELSE IF Len(allowedOrigins.v) > 0
    THEN Str(allowedOrigins.v[1])
    ELSE Undefined

(***************************************************************************)
(* The finally hook (lines 57-92)                                          *)
(***************************************************************************)
ACAllowHeaders == "Access-Control-Allow-Headers"
ACAllowCredentials == "Access-Control-Allow-Credentials"
ACMaxAge == "Access-Control-Max-Age"
ACAllowOrigin == "Access-Control-Allow-Origin"
CacheControl == "Cache-Control"
CorsHeaders == {ACAllowHeaders, ACAllowCredentials, ACMaxAge, ACAllowOrigin, CacheControl}

\* the hook without its guard on the method
HasMethodAlways(ev) == TRUE

\* request.event.httpMethod != null (line 64)
HasMethod(ev) == ~IsNullish(Prop(ev, "httpMethod"))

\* config.credentials === true (line 74)
CredentialsOn(cfg) == Prop(cfg, "credentials") = Bool(TRUE)

\* the guard without its length test
OriginsConfiguredAnyLength(cfg) == ~IsNullish(Prop(cfg, "allowedOrigins"))

\* config.allowedOrigins && config.allowedOrigins.length > 0 (line 80)
OriginsConfigured(cfg) ==
    /\ ~IsNullish(Prop(cfg, "allowedOrigins"))
    /\ Len(Prop(cfg, "allowedOrigins").v) > 0

\* the method compared without regard to case
IsPreflightAnyCase(ev) == Prop(ev, "httpMethod") \in {Str("OPTIONS"), Str("options")}

\* request.event.httpMethod === 'OPTIONS' (line 88)
IsPreflight(ev) == Prop(ev, "httpMethod") = Str("OPTIONS")

\* lines 65-66: the response and its header mapping, created when missing
EnsureHeaders(resp) ==
    LET r == Coalesce(resp, Obj(Empty))
    IN  Obj(("headers" :> Coalesce(Prop(r, "headers"), Obj(Empty))) @@ r.v)

\* lines 68-78: the three headers written before the origin is resolved
BeforeOrigin(cfg, resp) ==
    LET r1 == setHeaderIfNotExists(EnsureHeaders(resp), ACAllowHeaders,
                                   Prop(cfg, "allowHeaders"))
        r2 == IF CredentialsOn(cfg)
              THEN setHeaderIfNotExists(r1, ACAllowCredentials, Bool(TRUE))
              ELSE r1
    IN  setHeaderIfNotExists(r2, ACMaxAge, Prop(cfg, "maxAge"))

\* lines 88-90
AfterOrigin(cfg, ev, resp) ==
    IF IsPreflight(ev)
    THEN setHeaderIfNotExists(resp, CacheControl, Prop(cfg, "cacheControl"))
    ELSE resp

\* lines 64-91 under the merged configuration cfg: the response the run leaves,
\* whether it rejected, and the lists it handed to parseAllowedOrigin
RunHook(cfg, ev, resp) ==
    IF ~HasMethod(ev)
    THEN [response |-> resp, threw |-> FALSE, parsed |-> {}]
    ELSE IF ~OriginsConfigured(cfg)
    THEN [response |-> AfterOrigin(cfg, ev, BeforeOrigin(cfg, resp)),
          threw |-> FALSE, parsed |-> {}]
    ELSE IF parseAllowedOriginThrows(ev)
    THEN [response |-> BeforeOrigin(cfg, resp), threw |-> TRUE,
          parsed |-> {Prop(cfg, "allowedOrigins").v}]
    ELSE [response |->
              AfterOrigin(cfg, ev,
                  setHeaderIfNotExists(BeforeOrigin(cfg, resp), ACAllowOrigin,
                      parseAllowedOrigin(ev, Prop(cfg, "allowedOrigins")))),
          threw |-> FALSE,
          parsed |-> {Prop(cfg, "allowedOrigins").v}]

(***************************************************************************)
(* The requests and responses the handler pipeline supplies                *)
(***************************************************************************)
\* the inbound header mappings: Origin and origin, each present or not
EventHeaders ==
    { a @@ b :
        a \in {Empty} \cup {[Origin |-> x] : x \in {Null} \cup {Str(o) : o \in InboundOrigins}},
        b \in {Empty} \cup {[origin |-> Str(o)] : o \in InboundOrigins} }

\* the events the pipeline is invoked with: HTTP events carry a method and
\* maybe a header mapping; an event of another shape carries no method
APIGatewayEvent ==
    { Obj(m @@ h) :
        m \in {[httpMethod |-> Str(x)] : x \in Methods},
        h \in {Empty} \cup {[headers |-> Obj(f)] : f \in EventHeaders} }
    \cup {Obj(Empty), Obj([headers |-> Obj([Origin |-> Str("a")])])}

HeaderNames == CorsHeaders \cup {"X-Test"}
PresetValues == {Null, Str("")}

\* the header mappings a handler returns: none of these headers, or one of
\* them holding null or the empty string
HandlerHeaders ==
    {Empty} \cup {(h :> x) : h \in HeaderNames, x \in PresetValues}

\* what the handler leaves in request.response: nothing, a result without
\* headers, or a result with headers
APIGatewayProxyResult ==
    {Undefined, Obj([statusCode |-> Str("200")])}
    \cup {Obj([statusCode |-> Str("200"), headers |-> Obj(f)]) : f \in HandlerHeaders}

(***************************************************************************)
(* The state machine                                                       *)
(***************************************************************************)
\* ShallotAWSHttpCors(config): the closure captures the caller's object
Init ==
    /\ options \in TShallotHTTPCorsOptions
    /\ config = options
    /\ event = Undefined
    /\ response = Undefined
    /\ runs = 0
    /\ threw = FALSE
    /\ prev = Undefined
    /\ parsed = {}
    /\ used = {}

\* one call of the hook with request {event: ev, response: resp}: lines 58-62
\* reassign the closure variable, lines 64-91 act on the request
Hook(ev, resp) ==
    \E cfg \in {MergeConfig(config)} : \E out \in {RunHook(cfg, ev, resp)} :
        /\ config' = cfg
        /\ event' = ev
        /\ prev' = resp
        /\ response' = out.response
        /\ threw' = out.threw
        /\ parsed' = out.parsed
        /\ used' = used \cup {cfg}
        /\ runs' = runs + 1
        /\ UNCHANGED options

\* the pipeline runs the hook on a new request, after its handler
Finally ==
    /\ runs = 0
    /\ \E ev \in APIGatewayEvent, resp \in APIGatewayProxyResult : Hook(ev, resp)

\* the middleware wraps the handler twice: the hook runs again on the request
FinallyAgain ==
    /\ runs \in 1..(MaxRuns - 1)
    /\ Hook(event, response)

\* the pipeline returns the response; the request's views are discarded
Return ==
    /\ runs >= 1
    /\ event' = Undefined
    /\ response' = Undefined
    /\ prev' = Undefined
    /\ runs' = 0
    /\ threw' = FALSE
    /\ parsed' = {}
    /\ UNCHANGED <<options, config, used>>

Next == Finally \/ FinallyAgain \/ Return

Spec == Init /\ [][Next]_vars

(***************************************************************************)
(* Observations of requests and responses, used by the properties below    *)
(***************************************************************************)
\* the header mapping of a response, undefined when there is none
HeadersOf(resp) == IF IsNullish(resp) THEN Undefined ELSE Prop(resp, "headers")

\* the entry of header h in a response, undefined when there is none
HeaderOf(resp, h) ==
    IF IsNullish(HeadersOf(resp)) THEN Undefined ELSE Prop(HeadersOf(resp), h)

\* the response carries no header at all
NoHeaders(resp) == IsNullish(HeadersOf(resp)) \/ HeadersOf(resp) = Obj(Empty)

\* the entry of key k in the header mapping of an event, undefined when the
\* event has no header mapping
InboundHeader(ev, k) ==
    IF IsNullish(Prop(ev, "headers")) THEN Undefined ELSE Prop(Prop(ev, "headers"), k)

\* the method of an event, undefined when it has none
MethodOf(ev) == Prop(ev, "httpMethod")

\* the allow-list the runs of the hook work with
EffectiveOrigins == Prop(config, "allowedOrigins")

(***************************************************************************)
(* C1  Non-destructive write                                               *)
(***************************************************************************)
\* C1: every header that holds a non-null value (the empty string included)
\* when a run of the hook begins holds the same value when the run ends; an
\* entry that differs after the run was absent or null before it.
NonDestructiveWrite ==
    runs >= 1 =>
        \A h \in HeaderNames :
            /\ ~IsNullish(HeaderOf(prev, h)) => HeaderOf(response, h) = HeaderOf(prev, h)
            /\ HeaderOf(response, h) # HeaderOf(prev, h) => IsNullish(HeaderOf(prev, h))

\* a run that resolved an origin while the handler had already set
\* Access-Control-Allow-Origin to the empty string
NonDestructiveWitness ==
    /\ runs >= 1
    /\ ~IsNullish(MethodOf(event))
    /\ ~threw
    /\ parsed # {}
    /\ HeaderOf(prev, ACAllowOrigin) = Str("")
    /\ HeaderOf(response, ACAllowOrigin) = Str("")

(***************************************************************************)
(* C2  Origin resolution                                                   *)
(***************************************************************************)
\* the origin the claim names for an event and a non-empty allow-list
ClaimedOrigin(ev, list) ==
    LET hs == Prop(ev, "headers")
        inbound == IF IsNullish(hs)
                   THEN Undefined
                   ELSE Coalesce(Prop(hs, "Origin"), Prop(hs, "origin"))
    IN  IF ~IsNullish(inbound) /\ (\E i \in 1..Len(list) : list[i] = inbound.v)
        THEN inbound.v
        ELSE IF \E i \in 1..Len(list) : list[i] = "*"
        THEN "*"
        ELSE list[1]

\* C2: for every request with a method, a non-empty allow-list and a response
\* without Access-Control-Allow-Origin, the hook writes the inbound origin when
\* it is in the list, else "*" when the list holds it, else the first entry.
OriginResolution ==
    ( /\ runs >= 1
      /\ ~IsNullish(MethodOf(event))
      /\ Len(EffectiveOrigins.v) > 0
      /\ IsNullish(HeaderOf(prev, ACAllowOrigin)) )
    => HeaderOf(response, ACAllowOrigin) = Str(ClaimedOrigin(event, EffectiveOrigins.v))

\* the same statement for the requests that carry a header mapping
OriginResolutionWithHeaders ==
    (runs >= 1 /\ ~IsNullish(Prop(event, "headers"))) => OriginResolution

(***************************************************************************)
(* C3  No-method guard                                                     *)
(***************************************************************************)
\* C3: a run of the hook on a request without httpMethod leaves the response
\* exactly as it was (absent stays absent, no header mapping is created) and
\* completes normally.
NoMethodGuard ==
    (runs >= 1 /\ IsNullish(MethodOf(event))) => (response = prev /\ ~threw)

\* a run on a method-less event with no response, under options that ask for
\* headers
NoMethodWitness ==
    /\ runs >= 1
    /\ IsNullish(MethodOf(event))
    /\ ~IsNullish(Prop(event, "headers"))
    /\ ~IsNullish(Prop(options, "allowHeaders"))
    /\ prev = Undefined
    /\ response = Undefined

(***************************************************************************)
(* C4  Idempotence                                                         *)
(***************************************************************************)
\* C4: a run of the hook that follows another run on the same request leaves
\* the response as the earlier run left it.
Idempotence ==
    runs >= 2 => response = prev

\* a second run on a response whose credentials header the first run wrote
IdempotenceWitness ==
    /\ runs = 2
    /\ HeaderOf(response, ACAllowCredentials) = Str("true")
    /\ HeaderOf(response, ACAllowOrigin) = Str("a")

(***************************************************************************)
(* C5  The hook never rejects                                              *)
(***************************************************************************)
\* C5: every run of the hook completes normally, whatever the request, the
\* response and the configuration are.
NeverThrows ==
    ~threw

(***************************************************************************)
(* C6  Case of the inbound origin header key                               *)
(***************************************************************************)
\* the header mapping with its origin, if any, under the key Origin alone
UnderOrigin(hs) ==
    IF ~IsNullish(Prop(hs, "Origin"))
    THEN Obj([Origin |-> Prop(hs, "Origin")])
    ELSE IF ~IsNullish(Prop(hs, "origin"))
    THEN Obj([Origin |-> Prop(hs, "origin")])
    ELSE Obj(Empty)

\* C6: a request answers as the request would that carries, under the key
\* Origin alone, the value of its Origin entry or, when that is absent or
\* null, the value of its origin entry.
OriginKeyCase ==
    (runs >= 1 /\ ~IsNullish(Prop(event, "headers"))) =>
        response =
            RunHook(config,
                    Obj(("headers" :> UnderOrigin(Prop(event, "headers"))) @@ event.v),
                    prev).response

\* a request with its origin under the lowercase key alone, echoed back
OriginKeyCaseWitness ==
    /\ runs >= 1
    /\ ~IsNullish(MethodOf(event))
    /\ IsNullish(InboundHeader(event, "Origin"))
    /\ InboundHeader(event, "origin") = Str("a")
    /\ EffectiveOrigins = Arr(<<"b", "a">>)
    /\ HeaderOf(response, ACAllowOrigin) = Str("a")

(***************************************************************************)
(* C7  Default configuration                                               *)
(***************************************************************************)
\* C7: the hook fills in allowedOrigins = ["*"] and credentials = false where
\* the caller's options omit them and keeps every field the caller supplied;
\* built with no options, it leaves exactly Access-Control-Allow-Origin = "*"
\* on a response without headers, for every request with a non-OPTIONS method.
DefaultConfiguration ==
    runs >= 1 =>
        /\ \A k \in DOMAIN options.v : Prop(config, k) = options.v[k]
        /\ "allowedOrigins" \notin DOMAIN options.v => EffectiveOrigins = Arr(<<"*">>)
        /\ "credentials" \notin DOMAIN options.v => Prop(config, "credentials") = Bool(FALSE)
        /\ ( /\ options = Obj(Empty)
             /\ ~IsNullish(MethodOf(event))
             /\ MethodOf(event) # Str("OPTIONS")
             /\ NoHeaders(prev) )
           => HeadersOf(response) = Obj((ACAllowOrigin :> Str("*")))

\* the same statement for the requests that carry a header mapping
DefaultConfigurationWithHeaders ==
    (runs >= 1 /\ ~IsNullish(Prop(event, "headers"))) => DefaultConfiguration

(***************************************************************************)
(* C8  Preflight-only Cache-Control                                        *)
(***************************************************************************)
\* C8: a run of the hook changes the Cache-Control entry only when the method
\* is exactly "OPTIONS", cacheControl is configured and the response had no
\* Cache-Control, and the entry then holds the configured value.
PreflightOnlyCacheControl ==
    (runs >= 1 /\ HeaderOf(response, CacheControl) # HeaderOf(prev, CacheControl)) =>
        /\ MethodOf(event) = Str("OPTIONS")
        /\ ~IsNullish(Prop(options, "cacheControl"))
        /\ IsNullish(HeaderOf(prev, CacheControl))
        /\ HeaderOf(response, CacheControl) = Prop(options, "cacheControl")

\* a preflight answered with the configured Cache-Control
PreflightWitness ==
    /\ runs >= 1
    /\ MethodOf(event) = Str("OPTIONS")
    /\ IsNullish(HeaderOf(prev, CacheControl))
    /\ HeaderOf(response, CacheControl) = Str("no-cache")

(***************************************************************************)
(* C9  Empty allow-list                                                    *)
(***************************************************************************)
\* C9: under allowedOrigins = [] a run of the hook leaves the
\* Access-Control-Allow-Origin entry as it was and never calls
\* parseAllowedOrigin (which no run ever calls with an empty list); with a GET
\* request, no other option and a response without headers, the header mapping
\* ends empty.
EmptyAllowList ==
    /\ \A l \in parsed : Len(l) > 0
    /\ (runs >= 1 /\ EffectiveOrigins = Arr(<<>>)) =>
          /\ parsed = {}
          /\ HeaderOf(response, ACAllowOrigin) = HeaderOf(prev, ACAllowOrigin)
          /\ ( /\ options = Obj([allowedOrigins |-> Arr(<<>>)])
               /\ MethodOf(event) = Str("GET")
               /\ NoHeaders(prev) )
             => HeadersOf(response) = Obj(Empty)

\* a GET request with an inbound origin under allowedOrigins = [] alone
EmptyAllowListWitness ==
    /\ runs >= 1
    /\ options = Obj([allowedOrigins |-> Arr(<<>>)])
    /\ MethodOf(event) = Str("GET")
    /\ InboundHeader(event, "Origin") = Str("a")
    /\ IsNullish(HeadersOf(prev))
    /\ HeadersOf(response) = Obj(Empty)

(***************************************************************************)
(* C10  Configuration stability                                            *)
(***************************************************************************)
\* C10: all runs of the hook of one middleware instance use the same effective
\* configuration, the merge of the defaults with the caller's options; the
\* response a run leaves is the one that configuration yields for the run's
\* own request and response; and no step changes the caller's options.
ConfigStableState ==
    /\ Cardinality(used) <= 1
    /\ used \subseteq {MergeConfig(options)}
    /\ runs >= 1 =>
          /\ config = MergeConfig(options)
          /\ response = RunHook(MergeConfig(options), event, prev).response

ConfigurationStability ==
    /\ []ConfigStableState
    /\ [][options' = options]_vars

\* the instance has run twice; the caller's options still omit the defaults
ConfigurationStabilityWitness ==
    /\ runs = 2
    /\ used = {MergeConfig(options)}
    /\ "allowedOrigins" \notin DOMAIN options.v
    /\ "allowedOrigins" \in DOMAIN config.v
    /\ HeaderOf(response, ACAllowOrigin) = Str("*")

====
